---- MODULE Spec2Model ----
(***************************************************************************)
(* Model of the SDLXLIFF split / translate / merge tools:                  *)
(*   tools/split_sdlxliff.py      extract_segments, split_into_batches,    *)
(*                                save_batches, main                       *)
(*   tools/translate_direct.py    translate_batch, parse_translations, main*)
(*   tools/merge_translations.py  load_all_translations,                   *)
(*                                merge_into_sdlxliff, main                *)
(*                                                                         *)
(* A text is a tuple of one-character strings.  An optional value is the   *)
(* empty tuple (absent) or a one-element tuple (present).  A document is   *)
(* the sequence, in document order, of its trans-unit elements of either   *)
(* dialect.  A directory is the sequence of its files in directory order.  *)
(***************************************************************************)
EXTENDS Integers, Sequences, FiniteSets, TLC

VARIABLES doc, extract_all, segments, batch_size, batches, batches_dir,
          futures, results, output_dir, translations,
          output_doc, merged_count, missing_count, pc

vars == <<doc, extract_all, segments, batch_size, batches, batches_dir,
          futures, results, output_dir, translations,
          output_doc, merged_count, missing_count, pc>>

(***************************************************************************)
(* Bounds of the model.                                                    *)
(***************************************************************************)
MaxUnits == 2
MaxSegs == 6
MaxBatchSize == 4
MaxFiles == 2
MaxJobSegs == 3

(***************************************************************************)
(* Values.                                                                 *)
(***************************************************************************)
None == <<>>
Some(x) == <<x>>

XLIFF_NS == "urn:oasis:names:tc:xliff:document:1.2"
NO_NS == ""

Whitespace == {" ", "\n"}

\* str.strip(): drop leading, then trailing, whitespace characters.
RECURSIVE LStrip(_)
LStrip(t) ==
    IF t # <<>> /\ Head(t) \in Whitespace THEN LStrip(Tail(t)) ELSE t

RECURSIVE RStrip(_)
RStrip(t) ==
    IF t # <<>> /\ t[Len(t)] \in Whitespace
    THEN RStrip(SubSeq(t, 1, Len(t) - 1))
    ELSE t

Strip(t) == RStrip(LStrip(t))

\* ''.join(elem.itertext()): the element's own text followed by the text and
\* tails of its descendants.
IterText(elem) == elem.text \o elem.inner

\* tu.get('id', ''): the id attribute, the empty string when there is none.
GetId(tu) == tu.id

\* root.iter('{ns}trans-unit'): the units of one dialect, in document order.
IterUnits(d, ns) == SelectSeq(d, LAMBDA tu : tu.ns = ns)

(***************************************************************************)
(* split_sdlxliff.extract_segments                                         *)
(***************************************************************************)
\* The test of the primary (namespaced) loop on one unit.
PrimaryIncluded(tu, all) ==
    /\ tu.source # None
    /\ Strip(IterText(tu.source[1])) # <<>>
    /\ \/ all
       \/ (IF tu.target # None THEN Strip(IterText(tu.target[1])) ELSE <<>>) = <<>>

\* The test of the fallback (unnamespaced) loop on one unit.
FallbackIncluded(tu) ==
    /\ tu.source # None
    /\ Strip(IterText(tu.source[1])) # <<>>

Segment(tu) == [id |-> GetId(tu), source |-> Strip(IterText(tu.source[1]))]

SegmentsOf(units) == [i \in 1..Len(units) |-> Segment(units[i])]

PrimarySegments(d, all) ==
    SegmentsOf(SelectSeq(IterUnits(d, XLIFF_NS), LAMBDA tu : PrimaryIncluded(tu, all)))

FallbackSegments(d) ==
    SegmentsOf(SelectSeq(IterUnits(d, NO_NS), FallbackIncluded))

\* Mutant: the unnamespaced loop runs whatever the namespaced loop found.
ExtractSegmentsBoth(d, all) == PrimarySegments(d, all) \o FallbackSegments(d)

ExtractSegments(d, all) ==
    LET first == PrimarySegments(d, all)
    IN  IF first = <<>> THEN FallbackSegments(d) ELSE first

(***************************************************************************)
(* split_sdlxliff.split_into_batches                                       *)
(***************************************************************************)
\* Mutant: floor division in place of the ceiling.
CeilDivFloor(total, size) == total \div size

\* -(-total // batch_size)
CeilDiv(total, size) == -((-total) \div size)

Max(a, b) == IF a >= b THEN a ELSE b

NumBatches(total, size) == Max(1, CeilDiv(total, size))

\* The size of batch i, counted from 0 as the loop does.
BatchSizeAt(total, num, i) ==
    (total \div num) + (IF i < (total % num) THEN 1 ELSE 0)

\* Mutant: idx is never advanced, every batch is cut from the start.
RECURSIVE SplitLoopNoAdvance(_, _, _, _, _)
SplitLoopNoAdvance(segs, num, i, idx, acc) ==
    IF i >= num
    THEN acc
    ELSE LET size == BatchSizeAt(Len(segs), num, i)
         IN  SplitLoopNoAdvance(segs, num, i + 1, idx,
                                Append(acc, SubSeq(segs, idx + 1, idx + size)))

\* The loop "for i in range(num_batches)" from iteration i on, idx being the
\* index (from 0) of the next segment to hand out.
RECURSIVE SplitLoop(_, _, _, _, _)
SplitLoop(segs, num, i, idx, acc) ==
    IF i >= num
    THEN acc
    ELSE LET size == BatchSizeAt(Len(segs), num, i)
         IN  SplitLoop(segs, num, i + 1, idx + size,
                       Append(acc, SubSeq(segs, idx + 1, idx + size)))

SplitIntoBatches(segs, size) ==
    IF Len(segs) = 0
    THEN <<>>
    ELSE SplitLoop(segs, NumBatches(Len(segs), size), 0, 0, <<>>)

(***************************************************************************)
(* split_sdlxliff.save_batches                                             *)
(***************************************************************************)
\* The decimal digits of n, most significant first.
RECURSIVE Digits(_)
Digits(n) == IF n < 10 THEN <<n>> ELSE Append(Digits(n \div 10), n % 10)

\* format(n, "03d"): at least three digits, zero padded on the left.
RECURSIVE ZeroPad(_, _)
ZeroPad(ds, width) == IF Len(ds) >= width THEN ds ELSE ZeroPad(<<0>> \o ds, width)

\* f"batch_{i+1:03d}.json", kept as the digits between "batch_" and ".json".
BatchFileName(k) == ZeroPad(Digits(k), 3)

BatchData(bs, i) ==
    [batch_number |-> i, total_batches |-> Len(bs),
     segment_count |-> Len(bs[i]), segments |-> bs[i]]

RECURSIVE SumLen(_)
SumLen(bs) == IF bs = <<>> THEN 0 ELSE Len(Head(bs)) + SumLen(Tail(bs))

Manifest(bs) ==
    [total_segments |-> SumLen(bs), total_batches |-> Len(bs),
     batch_files |-> [i \in 1..Len(bs) |-> BatchFileName(i)]]

SaveBatches(bs) ==
    [files |-> [i \in 1..Len(bs) |->
                    [name |-> BatchFileName(i), data |-> BatchData(bs, i)]],
     manifest |-> Some(Manifest(bs))]

(***************************************************************************)
(* Directories: writing a file, listing, sorting the listing.              *)
(***************************************************************************)
FileNames(dir) == {dir[i].name : i \in 1..Len(dir)}

\* open(path, 'w') and dump: a new file is entered at the end of the
\* directory, an existing one is rewritten where it stands.
WriteFile(dir, file) ==
    IF file.name \in FileNames(dir)
    THEN [i \in 1..Len(dir) |-> IF dir[i].name = file.name THEN file ELSE dir[i]]
    ELSE Append(dir, file)

\* The order of str: character by character, a proper prefix first.
RECURSIVE LexLess(_, _)
LexLess(a, b) ==
    IF a = <<>> THEN b # <<>>
    ELSE IF b = <<>> THEN FALSE
    ELSE IF Head(a) # Head(b) THEN Head(a) < Head(b)
    ELSE LexLess(Tail(a), Tail(b))

RECURSIVE InsertByName(_, _)
InsertByName(sorted, file) ==
    IF sorted = <<>> THEN <<file>>
    ELSE IF LexLess(file.name, Head(sorted).name)
         THEN <<file>> \o sorted
         ELSE <<Head(sorted)>> \o InsertByName(Tail(sorted), file)

RECURSIVE SortLoop(_, _)
SortLoop(files, acc) ==
    IF files = <<>> THEN acc
    ELSE SortLoop(Tail(files), InsertByName(acc, Head(files)))

\* Mutant: the listing is used as glob returns it.
Unsorted(files) == files

\* sorted(glob.glob(pattern)): glob lists in directory order, sorted orders
\* the paths by name.
Sorted(files) == SortLoop(files, <<>>)

(***************************************************************************)
(* Maps (dict).                                                            *)
(***************************************************************************)
EmptyMap == [k \in {} |-> <<>>]

\* d[k] = v
Put(m, k, v) == [x \in (DOMAIN m) \cup {k} |-> IF x = k THEN v ELSE m[x]]

\* d.get(k, default)
Get(m, k, default) == IF k \in DOMAIN m THEN m[k] ELSE default

(***************************************************************************)
(* translate_direct.parse_translations, translate_batch                    *)
(***************************************************************************)
\* A reply of the translation service is kept as the pairs that
\* re.split(r'\[ID:\s*([^\]]+)\]', content) yields: an id and the text after it.
RECURSIVE IdTranslationMap(_, _)
IdTranslationMap(reply, m) ==
    IF reply = <<>> THEN m
    ELSE IdTranslationMap(Tail(reply),
                          Put(m, Head(reply).id, Strip(Head(reply).text)))

ParseTranslations(reply, segs) ==
    LET m == IdTranslationMap(reply, EmptyMap)
    IN  [i \in 1..Len(segs) |->
            [id |-> segs[i].id, source |-> segs[i].source,
             target |-> Get(m, segs[i].id, <<>>)]]

\* The result file translate_batch writes for a batch file and a reply.
ResultFile(batchFile, reply) ==
    [name |-> batchFile.name,
     content |-> [kind |-> "json",
                  data |-> [batch_number |-> batchFile.data.batch_number,
                            translations |->
                                ParseTranslations(reply, batchFile.data.segments)]]]

\* main: the batch files, sorted, that have no result file yet.
Tasks(bdir, odir) ==
    SelectSeq(Sorted(bdir.files), LAMBDA f : f.name \notin FileNames(odir))

(***************************************************************************)
(* merge_translations.load_all_translations                                *)
(***************************************************************************)
\* Mutant: an id already in the map keeps its first value.
RECURSIVE ItemsLoopKeepFirst(_, _)
ItemsLoopKeepFirst(items, m) ==
    IF items = <<>> THEN m
    ELSE LET item == Head(items)
         IN  ItemsLoopKeepFirst(Tail(items),
                                IF /\ "id" \in DOMAIN item
                                   /\ "target" \in DOMAIN item
                                   /\ item.id \notin DOMAIN m
                                THEN Put(m, item.id, item.target)
                                ELSE m)

\* for item in data['translations']
RECURSIVE ItemsLoop(_, _)
ItemsLoop(items, m) ==
    IF items = <<>> THEN m
    ELSE LET item == Head(items)
         IN  ItemsLoop(Tail(items),
                       IF "id" \in DOMAIN item /\ "target" \in DOMAIN item
                       THEN Put(m, item.id, item.target)
                       ELSE m)

\* for filepath in sorted(...): json.load raises on a file that does not
\* parse, and nothing catches it.
RECURSIVE FilesLoop(_, _)
FilesLoop(files, m) ==
    IF files = <<>> THEN [ok |-> TRUE, map |-> m]
    ELSE LET content == Head(files).content
         IN  IF content.kind # "json"
             THEN [ok |-> FALSE, map |-> m]
             ELSE FilesLoop(Tail(files),
                            IF "translations" \in DOMAIN content.data
                            THEN ItemsLoop(content.data.translations, m)
                            ELSE m)

LoadAllTranslations(dir) == FilesLoop(Sorted(dir), EmptyMap)

(***************************************************************************)
(* merge_translations.merge_into_sdlxliff                                  *)
(***************************************************************************)
\* target_elem.text = translations[tu_id], on the target found or created;
\* the children of a target that was there stay.
SetTarget(tu, value) ==
    [tu EXCEPT !.target =
        Some([text |-> value,
              inner |-> IF tu.target = None THEN <<>> ELSE tu.target[1].inner])]

\* Mutant: the target slot is found or created before the id is looked up,
\* so a visited unit without translation gets an empty target slot.
MergeUnitCreateFirst(tu, tr) ==
    IF tu.ns = XLIFF_NS
    THEN IF GetId(tu) \in DOMAIN tr
         THEN SetTarget(tu, tr[GetId(tu)])
         ELSE IF tu.target = None
              THEN [tu EXCEPT !.target = Some([text |-> <<>>, inner |-> <<>>])]
              ELSE tu
    ELSE tu

\* The loop body's effect on one element of the document: only the elements
\* root.iter('{urn:oasis:names:tc:xliff:document:1.2}trans-unit') yields are
\* visited.
MergeUnit(tu, tr) ==
    IF tu.ns = XLIFF_NS /\ GetId(tu) \in DOMAIN tr
    THEN SetTarget(tu, tr[GetId(tu)])
    ELSE tu

IsMerged(tu, tr) == tu.ns = XLIFF_NS /\ GetId(tu) \in DOMAIN tr

IsMissing(tu, tr) ==
    /\ tu.ns = XLIFF_NS
    /\ GetId(tu) \notin DOMAIN tr
    /\ tu.source # None
    /\ Strip(IterText(tu.source[1])) # <<>>

RECURSIVE MergeLoop(_, _, _, _, _)
MergeLoop(d, tr, i, merged, missing) ==
    IF i > Len(d)
    THEN [merged |-> merged, missing |-> missing]
    ELSE MergeLoop(d, tr, i + 1,
                   merged + (IF IsMerged(d[i], tr) THEN 1 ELSE 0),
                   missing + (IF IsMissing(d[i], tr) THEN 1 ELSE 0))

MergeIntoSdlxliff(d, tr) ==
    LET counts == MergeLoop(d, tr, 1, 0, 0)
    IN  [doc |-> [i \in 1..Len(d) |-> MergeUnit(d[i], tr)],
         merged_count |-> counts.merged,
         missing_count |-> counts.missing]

(***************************************************************************)
(* Inputs.                                                                 *)
(***************************************************************************)
\* argparse: --batch-size default
DefaultBatchSize == 50

\* The example of split_into_batches' docstring: 162 segments, batch_size 40.
ExampleTotal == 162
ExampleBatchSize == 40

IdSet == {"", "1"}

SourceSlots ==
    { None,
      Some([text |-> <<" ">>, inner |-> <<>>]),
      Some([text |-> <<" ", "a">>, inner |-> <<>>]),
      Some([text |-> <<>>, inner |-> <<"b", "\n">>]) }

TargetSlots ==
    { None,
      Some([text |-> <<"\n">>, inner |-> <<>>]),
      Some([text |-> <<"x">>, inner |-> <<"y">>]) }

UnitSet == [ns : {XLIFF_NS, NO_NS}, id : IdSet, source : SourceSlots, target : TargetSlots]

SeqsUpTo(S, n) == UNION {[1..k -> S] : k \in 0..n}

Docs == SeqsUpTo(UnitSet, MaxUnits)

SegPool == {[id |-> "1", source |-> <<"a">>], [id |-> "2", source |-> <<"b">>]}

ExampleSegments ==
    [i \in 1..ExampleTotal |-> [id |-> IF i % 2 = 1 THEN "1" ELSE "2", source |-> <<"a">>]]

\* A namespaced document whose units are the given segments, none translated.
DocOfSegments(segs) ==
    [i \in 1..Len(segs) |->
        [ns |-> XLIFF_NS, id |-> segs[i].id,
         source |-> Some([text |-> segs[i].source, inner |-> <<>>]),
         target |-> None]]

JobDocs == {DocOfSegments(s) : s \in SeqsUpTo(SegPool, MaxJobSegs) \ {<<>>}}

\* Replies of the translation service.
Replies ==
    {<<[id |-> i, text |-> t]>> : i \in {"1", "2"}, t \in {<<"A">>, <<"B", " ">>}}

\* Records of a result file: complete, without id, without target.
Items ==
    { [id |-> "1", source |-> <<"a">>, target |-> <<"A">>],
      [id |-> "1", source |-> <<"a">>, target |-> <<"B">>],
      [source |-> <<"a">>, target |-> <<"A">>],
      [id |-> "2", source |-> <<"b">>] }

\* The record lists of a result file: none, one or two records.
ItemLists == {<<>>} \cup {<<a>> : a \in Items} \cup (Items \X Items)

\* What a result file holds: text that does not parse, an object without the
\* translations key, an object with a list of records.
Contents ==
    {[kind |-> "garbage"], [kind |-> "json", data |-> [batch_number |-> 1]]}
    \cup {[kind |-> "json", data |-> [batch_number |-> 1, translations |-> t]] :
            t \in ItemLists}

NamePool == {BatchFileName(1), BatchFileName(2), BatchFileName(10)}

NoRepeatedName(dir) ==
    \A i, j \in 1..Len(dir) : dir[i].name = dir[j].name => i = j

Dirs ==
    {d \in SeqsUpTo([name : NamePool, content : Contents], MaxFiles) : NoRepeatedName(d)}

Maps == UNION {[K -> {<<"A">>, <<"B">>}] : K \in SUBSET IdSet}

(***************************************************************************)
(* State.                                                                  *)
(***************************************************************************)
EmptyDir == [files |-> <<>>, manifest |-> None]

\* Everything but the inputs, before any tool has run.
Blank ==
    /\ batches = <<>>
    /\ batches_dir = EmptyDir
    /\ futures = <<>>
    /\ results = <<>>
    /\ output_doc = None
    /\ merged_count = 0
    /\ missing_count = 0

(***************************************************************************)
(* split_sdlxliff.main                                                     *)
(***************************************************************************)
Extract ==
    /\ pc = "start"
    /\ segments' = ExtractSegments(doc, extract_all)
    /\ pc' = IF segments' = <<>> THEN "exit1" ELSE "extracted"
    /\ UNCHANGED <<doc, extract_all, batch_size, batches, batches_dir, futures,
                   results, output_dir, translations, output_doc,
                   merged_count, missing_count>>

Split ==
    /\ pc = "extracted"
    /\ batches' = SplitIntoBatches(segments, batch_size)
    /\ pc' = "split"
    /\ UNCHANGED <<doc, extract_all, segments, batch_size, batches_dir, futures,
                   results, output_dir, translations, output_doc,
                   merged_count, missing_count>>

Save ==
    /\ pc = "split"
    /\ batches_dir' = SaveBatches(batches)
    /\ pc' = "saved"
    /\ UNCHANGED <<doc, extract_all, segments, batch_size, batches, futures,
                   results, output_dir, translations, output_doc,
                   merged_count, missing_count>>

(***************************************************************************)
(* translate_direct.main                                                   *)
(***************************************************************************)
Submit ==
    /\ pc = "saved"
    /\ LET tasks == Tasks(batches_dir, output_dir)
       IN  /\ futures' = [i \in 1..Len(tasks) |-> [task |-> tasks[i], done |-> FALSE]]
           /\ pc' = IF tasks = <<>> THEN "translated" ELSE "translating"
    /\ UNCHANGED <<doc, extract_all, segments, batch_size, batches, batches_dir,
                   results, output_dir, translations, output_doc,
                   merged_count, missing_count>>

AllDone(fs) == \A i \in 1..Len(fs) : fs[i].done

\* A worker's translate_batch returns having written its result file; the
\* main thread takes its result from as_completed.
TranslateOk(i, reply) ==
    /\ pc = "translating"
    /\ ~futures[i].done
    /\ LET file == ResultFile(futures[i].task, reply)
       IN  /\ output_dir' = WriteFile(output_dir, file)
           /\ results' = Append(results,
                                [batch |-> futures[i].task.data.batch_number,
                                 success |-> TRUE,
                                 count |-> Len(file.content.data.translations)])
    /\ futures' = [futures EXCEPT ![i].done = TRUE]
    /\ pc' = IF AllDone(futures') THEN "translated" ELSE "translating"
    /\ UNCHANGED <<doc, extract_all, segments, batch_size, batches, batches_dir,
                   translations, output_doc, merged_count, missing_count>>

\* The request fails: translate_batch returns a failure and writes nothing.
TranslateFail(i) ==
    /\ pc = "translating"
    /\ ~futures[i].done
    /\ results' = Append(results,
                         [batch |-> futures[i].task.data.batch_number,
                          success |-> FALSE, count |-> 0])
    /\ futures' = [futures EXCEPT ![i].done = TRUE]
    /\ pc' = IF AllDone(futures') THEN "translated" ELSE "translating"
    /\ UNCHANGED <<doc, extract_all, segments, batch_size, batches, batches_dir,
                   output_dir, translations, output_doc, merged_count, missing_count>>

Translate ==
    \E i \in 1..Len(futures) :
        \/ \E reply \in Replies : TranslateOk(i, reply)
        \/ TranslateFail(i)

(***************************************************************************)
(* merge_translations.main                                                 *)
(***************************************************************************)
Load ==
    /\ pc = "translated"
    /\ LET r == LoadAllTranslations(output_dir)
       IN  /\ translations' = IF r.ok THEN r.map ELSE translations
           /\ pc' = IF r.ok THEN "loaded" ELSE "crashed"
    /\ UNCHANGED <<doc, extract_all, segments, batch_size, batches, batches_dir,
                   futures, results, output_dir, output_doc,
                   merged_count, missing_count>>

Merge ==
    /\ pc = "loaded"
    /\ LET r == MergeIntoSdlxliff(doc, translations)
       IN  /\ output_doc' = Some(r.doc)
           /\ merged_count' = r.merged_count
           /\ missing_count' = r.missing_count
    /\ pc' = "merged"
    /\ UNCHANGED <<doc, extract_all, segments, batch_size, batches, batches_dir,
                   futures, results, output_dir, translations>>

(***************************************************************************)
(* Specifications.                                                         *)
(***************************************************************************)
\* The whole pipeline on documents of untranslated namespaced units.
Init ==
    /\ doc \in JobDocs
    /\ extract_all \in BOOLEAN
    /\ batch_size \in {1, 2}
    /\ output_dir = <<>>
    /\ translations = EmptyMap
    /\ pc = "start"
    /\ segments = <<>>
    /\ Blank

Next == Extract \/ Split \/ Save \/ Submit \/ Translate \/ Load \/ Merge

Spec == Init /\ [][Next]_vars

\* split_sdlxliff.main on any document.
InitSplit ==
    /\ doc \in Docs
    /\ extract_all \in BOOLEAN
    /\ batch_size \in {1, DefaultBatchSize}
    /\ output_dir = <<>>
    /\ translations = EmptyMap
    /\ pc = "start"
    /\ segments = <<>>
    /\ Blank

NextSplit == Extract \/ Split \/ Save

SpecSplit == InitSplit /\ [][NextSplit]_vars

\* split_into_batches and save_batches on any segment list.
InitPartition ==
    /\ doc = <<>>
    /\ extract_all = FALSE
    /\ \/ /\ segments \in SeqsUpTo(SegPool, MaxSegs)
          /\ batch_size \in 1..MaxBatchSize
       \/ /\ segments = ExampleSegments
          /\ batch_size = ExampleBatchSize
    /\ output_dir = <<>>
    /\ translations = EmptyMap
    /\ pc = "extracted"
    /\ Blank

NextPartition == Split \/ Save

SpecPartition == InitPartition /\ [][NextPartition]_vars

\* load_all_translations on any directory of result files.
InitLoad ==
    /\ doc = <<>>
    /\ extract_all = FALSE
    /\ segments = <<>>
    /\ batch_size = DefaultBatchSize
    /\ output_dir \in Dirs
    /\ translations = EmptyMap
    /\ pc = "translated"
    /\ Blank

NextLoad == Load

SpecLoad == InitLoad /\ [][NextLoad]_vars

\* merge_into_sdlxliff on any document and any translations map.
InitMerge ==
    /\ doc \in Docs
    /\ extract_all = FALSE
    /\ segments = <<>>
    /\ batch_size = DefaultBatchSize
    /\ output_dir = <<>>
    /\ translations \in Maps
    /\ pc = "loaded"
    /\ Blank

NextMerge == Merge

SpecMerge == InitMerge /\ [][NextMerge]_vars

(***************************************************************************)
(* Properties.                                                             *)
(***************************************************************************)
Sizes(bs) == [i \in 1..Len(bs) |-> Len(bs[i])]

RECURSIVE Concat(_)
Concat(bs) == IF bs = <<>> THEN <<>> ELSE Head(bs) \o Concat(Tail(bs))

Partitioned == pc \in {"split", "saved"}

\* C1: for total >= 1 and batch_size >= 1 the number of batches is
\* ceil(total / batch_size) (the least n with n * batch_size >= total), no
\* batch is empty, any two sizes differ by at most 1 with the larger batches
\* first, the sizes sum to total, and 162 segments with batch_size 40 give
\* the sizes 33,33,32,32,32.
PartitionBalance ==
    (Partitioned /\ Len(segments) >= 1) =>
        LET total == Len(segments)
            n == Len(batches)
            sz == Sizes(batches)
        IN  /\ n * batch_size >= total
            /\ (n - 1) * batch_size < total
            /\ \A i \in 1..n : sz[i] >= 1
            /\ \A i, j \in 1..n : sz[i] - sz[j] <= 1
            /\ \A i, j \in 1..n : i < j => sz[i] >= sz[j]
            /\ SumLen(batches) = total
            /\ (total = ExampleTotal /\ batch_size = ExampleBatchSize)
                   => sz = <<33, 33, 32, 32, 32>>

\* The docstring's example has been split, and so has a list that does not
\* divide evenly.
PartitionBalanceWitness ==
    /\ pc = "split"
    /\ Len(segments) = ExampleTotal
    /\ batch_size = ExampleBatchSize
    /\ Len(batches) = 5

\* C2: the batches, concatenated in batch order, are the segment list that
\* was split: nothing lost, duplicated or reordered.
ConcatenationIsInput ==
    Partitioned => Concat(batches) = segments

\* A list of differing segments has been split into several batches of
\* different sizes.
ConcatenationWitness ==
    /\ pc = "split"
    /\ Len(batches) >= 2
    /\ Len(batches[1]) > Len(batches[Len(batches)])
    /\ segments[1] # segments[2]
    /\ segments[2] # segments[3]

\* The text of a slot as extraction reads it: all its text, trimmed; the
\* empty text when the slot is absent.
SlotText(slot) == IF slot = None THEN <<>> ELSE Strip(IterText(slot[1]))

\* The units of the document: those of the primary dialect, those of the
\* fallback dialect when the primary has none.
DialectUnits(d) ==
    IF IterUnits(d, XLIFF_NS) # <<>> THEN IterUnits(d, XLIFF_NS) ELSE IterUnits(d, NO_NS)

Count(units, P(_)) == Cardinality({i \in 1..Len(units) : P(units[i])})

\* C3: mergedCount is the number of the document's units (primary dialect,
\* or fallback dialect when the primary has none) whose id is a key of the
\* map; missingCount is the number of those whose id is no key and whose
\* source text is non-empty.
MergeCountsEveryDialect ==
    pc = "merged" =>
        LET units == DialectUnits(doc)
        IN  /\ merged_count =
                  Count(units, LAMBDA tu : tu.id \in DOMAIN translations)
            /\ missing_count =
                  Count(units, LAMBDA tu : /\ tu.id \notin DOMAIN translations
                                           /\ SlotText(tu.source) # <<>>)

\* C4: after merge every unit of the document (in the dialect extraction
\* accepted) whose id is a key of the map has a target slot whose text is
\* the mapped value.
MergedTargetsEveryDialect ==
    pc = "merged" =>
        \A i \in 1..Len(doc) :
            LET before == doc[i]
                after == output_doc[1][i]
            IN  (/\ \E j \in 1..Len(DialectUnits(doc)) : DialectUnits(doc)[j] = before
                 /\ before.id \in DOMAIN translations)
                    => /\ after.target # None
                       /\ after.target[1].text = translations[before.id]

\* The records of a directory that carry both id and target, by position.
HasItems(file) ==
    file.content.kind = "json" /\ "translations" \in DOMAIN file.content.data

ItemsOf(file) == IF HasItems(file) THEN file.content.data.translations ELSE <<>>

Complete(item) == "id" \in DOMAIN item /\ "target" \in DOMAIN item

Entries(dir) ==
    UNION {{<<f, j>> : j \in {k \in 1..Len(ItemsOf(dir[f])) :
                                  Complete(ItemsOf(dir[f])[k])}} :
           f \in 1..Len(dir)}

\* Entry e is read after entry d: in a file whose name sorts later, or later
\* in the same file.
ReadAfter(dir, e, d) ==
    \/ LexLess(dir[d[1]].name, dir[e[1]].name)
    \/ e[1] = d[1] /\ e[2] > d[2]

\* C5: the loaded map has exactly the ids of the records that carry id and
\* target, each with the target of the record read last in sorted filename
\* order; records lacking id or target neither fail the load nor count.
LastWriteWins ==
    LET dir == output_dir
        parsed == \A f \in 1..Len(dir) : dir[f].content.kind = "json"
    IN  /\ (pc # "translated" /\ parsed) => pc = "loaded"
        /\ pc = "loaded" =>
              /\ DOMAIN translations =
                    {ItemsOf(dir[e[1]])[e[2]].id : e \in Entries(dir)}
              /\ \A e \in Entries(dir) :
                    LET item == ItemsOf(dir[e[1]])[e[2]]
                    IN  (\A d \in Entries(dir) :
                            ItemsOf(dir[d[1]])[d[2]].id = item.id
                                => ~ReadAfter(dir, d, e))
                            => translations[item.id] = item.target

\* Two files give different targets for one id, the file that sorts last
\* stands first in the directory, and a record without id or target is there.
LastWriteWinsWitness ==
    /\ pc = "loaded"
    /\ Len(output_dir) = 2
    /\ LexLess(output_dir[2].name, output_dir[1].name)
    /\ \E d, e \in Entries(output_dir) :
          /\ d[1] = 1 /\ e[1] = 2
          /\ ItemsOf(output_dir[1])[d[2]].id = ItemsOf(output_dir[2])[e[2]].id
          /\ ItemsOf(output_dir[1])[d[2]].target # ItemsOf(output_dir[2])[e[2]].target
    /\ \E f \in 1..2 : \E j \in 1..Len(ItemsOf(output_dir[f])) :
          ~Complete(ItemsOf(output_dir[f])[j])

\* C6: a result file that does not parse is skipped: the load completes with
\* the map of the other files, as if the file were absent.
CorruptFileSkipped ==
    pc # "translated" =>
        /\ pc = "loaded"
        /\ translations =
              LoadAllTranslations(
                  SelectSeq(output_dir, LAMBDA f : f.content.kind = "json")).map

Extracted == pc \in {"exit1", "extracted", "split", "saved"}

\* The inclusion rule: non-empty source, and mode ALL or empty target.
RuleIncluded(tu, all) ==
    SlotText(tu.source) # <<>> /\ (all \/ SlotText(tu.target) = <<>>)

RuleSegments(units, all) ==
    LET kept == SelectSeq(units, LAMBDA tu : RuleIncluded(tu, all))
    IN  [i \in 1..Len(kept) |-> [id |-> kept[i].id, source |-> SlotText(kept[i].source)]]

\* The segment is that of some unit of the dialect.
FromDialect(seg, ns) ==
    \E i \in 1..Len(doc) :
        /\ doc[i].ns = ns
        /\ seg.id = doc[i].id
        /\ seg.source = SlotText(doc[i].source)

\* The namespaced units that pass the inclusion rule.
PrimaryKept ==
    SelectSeq(IterUnits(doc, XLIFF_NS), LAMBDA tu : RuleIncluded(tu, extract_all))

\* C7 as stated: when the document has a namespaced unit, included or not,
\* every extracted segment is the segment of a namespaced unit: no
\* unnamespaced unit is returned.
FallbackOnlyWithoutPrimaryUnits ==
    (Extracted /\ IterUnits(doc, XLIFF_NS) # <<>>) =>
        \A k \in 1..Len(segments) : FromDialect(segments[k], XLIFF_NS)

\* C7 as amended: the fallback dialect is used only when the namespaced pass
\* extracted nothing.  When a namespaced unit is included, the result is one
\* segment per included namespaced unit and no unnamespaced unit is
\* returned; otherwise every segment is that of an unnamespaced unit.  The
\* result never mixes dialects.
FallbackOnlyWhenPrimaryExtractsNothing ==
    Extracted =>
        IF PrimaryKept # <<>>
        THEN /\ Len(segments) = Len(PrimaryKept)
             /\ \A k \in 1..Len(segments) : FromDialect(segments[k], XLIFF_NS)
        ELSE \A k \in 1..Len(segments) : FromDialect(segments[k], NO_NS)

\* A document with an included namespaced unit and an unnamespaced unit with
\* a non-empty source has been extracted.
FallbackWitness ==
    /\ pc = "extracted"
    /\ PrimaryKept # <<>>
    /\ \E i \in 1..Len(doc) : doc[i].ns = NO_NS /\ SlotText(doc[i].source) # <<>>

\* C8: in the dialect extraction reads, the result is, in document order,
\* exactly the units with a non-empty source and (mode ALL or an empty
\* target).
InclusionRuleEveryDialect ==
    Extracted =>
        \/ segments = RuleSegments(IterUnits(doc, XLIFF_NS), extract_all)
        \/ segments = RuleSegments(IterUnits(doc, NO_NS), extract_all)

\* C9: every segment of every batch has a non-empty id, and no id occurs
\* twice across the batches of one split.
BatchIdsNonEmptyAndUnique ==
    Partitioned =>
        /\ \A b \in 1..Len(batches) : \A k \in 1..Len(batches[b]) :
              batches[b][k].id # ""
        /\ \A b, c \in 1..Len(batches) :
              \A k \in 1..Len(batches[b]) : \A l \in 1..Len(batches[c]) :
                  batches[b][k].id = batches[c][l].id => (b = c /\ k = l)

\* The result files of the run, by batch number.
ResultsOfBatch(n) ==
    {f \in 1..Len(output_dir) : output_dir[f].content.data.batch_number = n}

\* The batches whose result file holds a record for the id.
BatchesWith(id) ==
    {n \in 1..Len(batches) :
        \E f \in ResultsOfBatch(n) :
            \E j \in 1..Len(ItemsOf(output_dir[f])) :
                ItemsOf(output_dir[f])[j].id = id}

Highest(S) == CHOOSE n \in S : \A m \in S : m <= n

\* C10: whatever the order in which the workers finished, the loaded map
\* gives each id the target of the highest-numbered batch whose result file
\* has the id, and the merged document carries that target.
CompletionOrderIrrelevant ==
    pc \in {"loaded", "merged"} =>
        /\ DOMAIN translations =
              {id \in {doc[i].id : i \in 1..Len(doc)} : BatchesWith(id) # {}}
        /\ \A id \in DOMAIN translations :
              \A f \in ResultsOfBatch(Highest(BatchesWith(id))) :
                  \A j \in 1..Len(ItemsOf(output_dir[f])) :
                      ItemsOf(output_dir[f])[j].id = id
                          => translations[id] = ItemsOf(output_dir[f])[j].target
        /\ pc = "merged" =>
              \A i \in 1..Len(doc) :
                  doc[i].id \in DOMAIN translations =>
                      \A f \in ResultsOfBatch(Highest(BatchesWith(doc[i].id))) :
                          \A j \in 1..Len(ItemsOf(output_dir[f])) :
                              ItemsOf(output_dir[f])[j].id = doc[i].id
                                  => output_doc[1][i].target[1].text =
                                         ItemsOf(output_dir[f])[j].target

\* A later batch finished before an earlier one, both wrote a result for the
\* same id with different targets, and the merge has run.
CompletionOrderWitness ==
    /\ pc = "merged"
    /\ Len(results) >= 2
    /\ results[1].success /\ results[2].success
    /\ results[1].batch > results[2].batch
    /\ \E j \in 1..Len(ItemsOf(output_dir[1])) : \E k \in 1..Len(ItemsOf(output_dir[2])) :
          /\ ItemsOf(output_dir[1])[j].id = ItemsOf(output_dir[2])[k].id
          /\ ItemsOf(output_dir[1])[j].target # ItemsOf(output_dir[2])[k].target

\* C11: merge changes nothing but target slots of units whose id is a key of
\* the map: the output has the same units in the same order, each with its
\* id, dialect and source slot as before, and the target slot of a unit
\* whose id is no key is as it was (not created, not emptied).
MergeFrame ==
    pc = "merged" =>
        /\ output_doc # None
        /\ Len(output_doc[1]) = Len(doc)
        /\ \A i \in 1..Len(doc) :
              LET before == doc[i]
                  after == output_doc[1][i]
              IN  /\ after.id = before.id
                  /\ after.ns = before.ns
                  /\ after.source = before.source
                  /\ before.id \notin DOMAIN translations
                        => after.target = before.target

\* A merge has rewritten the target of one unit and passed over two kinds of
\* unit without translation: one with a target slot, one without.
MergeFrameWitness ==
    /\ pc = "merged"
    /\ merged_count >= 1
    /\ \E i \in 1..Len(doc) :
          /\ doc[i].id \in DOMAIN translations
          /\ output_doc[1][i].target # doc[i].target
    /\ \E i \in 1..Len(doc) :
          /\ doc[i].ns = XLIFF_NS
          /\ doc[i].id \notin DOMAIN translations
          /\ doc[i].source # None

====
